---- MODULE Spec2Model ----
(***************************************************************************)
(* Session orchestration of the murmur dictation daemon: the command       *)
(* handlers of WhisperDaemon (start, stop, status, shutdown, the window's  *)
(* stop request), the AudioCapture engine they arm and drain, the          *)
(* Transcriber's one-shot transcription and the TextInjector's fallback    *)
(* chain.  Handlers run on one thread per connection (IPCServer) or on the *)
(* Qt main thread (the window's stop request); the daemon holds no lock    *)
(* around the session fields, so every access to a shared field is a step  *)
(* of its own.                                                             *)
(***************************************************************************)
EXTENDS Naturals, Sequences, FiniteSets, TLC

\* ---------------------------------------------------------------- bounds
MaxStarts == 2      \* start commands the clients send
MaxBlocks == 1      \* runs of audio callbacks appended to the buffer per session
MaxTimers == 1      \* shutdown timers that may be pending
MaxDelivered == 2   \* blocks one session may capture when the engine is examined alone
MaxConns == 3       \* connections the transport accepts when it is examined alone
MaxFrames == 21     \* full frames of a chunk handed to the voice gate
MaxTail == 1        \* frames of the third run of equal verdicts in such a chunk
MaxPriorFrames == 1 \* frames of the chunks after which the gate is called once more
MaxStreamed == 2    \* runs of audio callbacks the streaming engine appends to the buffer
MaxSessions == 2    \* start() calls on the streaming engine

\* ------------------------------------------------------ program constants
MinTranscribeSamples == 8000
\* "frame_samples = int(self.sample_rate * self.vad_frame_duration / 1000)", 16000 Hz and 30 ms
FrameSamples == 480
\* "chunk_samples = int(self.sample_rate * self.chunk_duration)", 16000 Hz and 2.0 s
chunk_samples == 32000

\* Execution contexts that run a handler: connection threads and the Qt main thread.
Tasks == {1, 2}

\* Samples one run of stream callbacks appends to the buffer: the length the
\* stop handler compares with, and one more.
FrameCounts == {8000, 8001}

IDLE == "idle"
RECORDING == "recording"
PROCESSING == "processing"
SessionState == {IDLE, RECORDING, PROCESSING}

DIRECT == "direct"
AUTO_PASTE == "auto_paste"
CLIPBOARD == "clipboard"
InsertionMethod == {DIRECT, AUTO_PASTE, CLIPBOARD}
PreferredMethods == {"auto", "direct", "auto_paste", "clipboard"}
None == "none"

VARIABLES
    state,               \* WhisperDaemon.state
    session_start_time,  \* WhisperDaemon.session_start_time
    sessions_count,      \* WhisperDaemon.sessions_count
    running,             \* WhisperDaemon.running
    starts,              \* start commands accepted so far
    gate,                \* the last _contains_voice call: its chunk, its result, AudioCapture.total_frames and voiced_frames
    streaming,           \* one AudioCapture with a chunk callback set: its fields, its lock, and where its threads stand
    inserted,            \* the last insert_text call made on the injector alone: its text and what it did
    client,              \* IPCClient.send_command: the endpoint it finds, its position and what it returned
    conn,                \* per connection thread of _handle_client: what was received, the local response, what was written
    timers,              \* threading.Timer(0.5, self.shutdown) started and not yet fired
    ipc_running,         \* IPCServer.running
    model_loaded,        \* Transcriber.model is not None
    recording,           \* AudioCapture.recording
    stream,              \* AudioCapture.stream is not None
    open_streams,        \* input streams started and not stopped
    audio_buffer,        \* AudioCapture.audio_buffer, one entry per callback block
    preferred_method,    \* TextInjector.preferred_method
    ydotool_available,   \* TextInjector._ydotool_available
    last_method_used,    \* TextInjector._last_method_used
    clipboard,           \* contents of the system clipboard
    pc,                  \* position of each task in its handler
    cmd,                 \* the handler each task runs
    all_audio,           \* local all_audio of _handle_stop_command
    transcription,       \* local transcription of _handle_stop_command
    insertion_method,    \* local insertion_method of _handle_stop_command
    count_read,          \* sessions_count as read by "self.sessions_count += 1"
    snapshot,            \* the status dict while _handle_status_command builds it
    result,              \* local result of _handle_gui_stop_request
    response,            \* the dict a handler has just returned, until it is sent
    trace                \* collaborator calls of the current handler run, in order

session == <<state, session_start_time, sessions_count>>
lifecycle == <<running, timers, ipc_running, model_loaded>>
probe == <<inserted, gate, streaming>>
clients == <<starts, conn, client, probe>>
capture == <<recording, stream, open_streams, audio_buffer>>
injector == <<preferred_method, ydotool_available, last_method_used, clipboard>>
shared == <<session, lifecycle, capture, injector, clients>>
stop_locals == <<all_audio, transcription, insertion_method>>
locals == <<pc, cmd, stop_locals, count_read, snapshot, result, trace>>
vars == <<shared, locals, response>>

\* ---------------------------------------------------------------- texts
RECURSIVE LStrip(_)
LStrip(s) == IF s = <<>> THEN <<>>
             ELSE IF Head(s) = " " THEN LStrip(Tail(s)) ELSE s

RECURSIVE RStrip(_)
RStrip(s) == IF s = <<>> THEN <<>>
             ELSE IF s[Len(s)] = " " THEN RStrip(SubSeq(s, 1, Len(s) - 1)) ELSE s

\* str.strip()
Strip(s) == RStrip(LStrip(s))

RECURSIVE Join(_)
\* " ".join(text_parts)
Join(parts) == IF parts = <<>> THEN <<>>
               ELSE IF Len(parts) = 1 THEN parts[1]
               ELSE parts[1] \o <<" ">> \o Join(Tail(parts))

\* len(s.split()): the maximal runs of non-blank characters
WordCount(s) == Cardinality({i \in 1..Len(s) : s[i] # " " /\ (i = 1 \/ s[i - 1] = " ")})

\* Segment lists the engine may return: nothing, silence, two words, and
\* silence followed by two words.
Blank == <<" ">>
Words == <<" ", "w", " ", "w">>
SegmentLists == {<<>>, <<Blank>>, <<Words>>, <<Blank, Words>>}

RECURSIVE NumSamples(_)
\* len(all_audio): the samples of all blocks
NumSamples(buf) == IF buf = <<>> THEN 0 ELSE Head(buf) + NumSamples(Tail(buf))

\* ------------------------------------------------------- TextInjector
\* What the desktop does during one insert_text call: whether pyperclip.copy
\* works in each method's attempt, and whether the ydotool runs succeed.
Envs == [copy : [InsertionMethod -> BOOLEAN], type_ok : BOOLEAN, key_ok : BOOLEAN]

\* Faulty variant of the candidate list: under "auto" typing is tried first.
MethodsFaulty(pref) ==
    IF pref = "auto_paste" THEN <<AUTO_PASTE, CLIPBOARD>>
    ELSE IF pref = "clipboard" THEN <<CLIPBOARD>>
    ELSE <<DIRECT, AUTO_PASTE, CLIPBOARD>>

\* The candidate list of insert_text.
Methods(pref) ==
    IF pref = "auto" THEN <<AUTO_PASTE, DIRECT, CLIPBOARD>>
    ELSE IF pref = "direct" THEN <<DIRECT, AUTO_PASTE, CLIPBOARD>>
    ELSE IF pref = "auto_paste" THEN <<AUTO_PASTE, CLIPBOARD>>
    ELSE <<CLIPBOARD>>

\* Faulty variant of _insert_direct that types the text without copying it first.
InsertDirectFaulty(text, ydo, env, clip) ==
    IF ~ydo THEN [ok |-> FALSE, clipboard |-> clip, copied |-> FALSE, ran |-> FALSE,
                  failure |-> "unavailable"]
    ELSE [ok |-> env.type_ok, clipboard |-> clip, copied |-> FALSE, ran |-> TRUE,
          failure |-> IF env.type_ok THEN None ELSE "ydotool"]

\* _insert_direct: whether it returned True, the clipboard afterwards, whether
\* pyperclip.copy and ydotool were called, and the failure it logged.
InsertDirect(text, ydo, env, clip) ==
    IF ~ydo THEN [ok |-> FALSE, clipboard |-> clip, copied |-> FALSE, ran |-> FALSE,
                  failure |-> "unavailable"]
    ELSE IF ~env.copy[DIRECT] THEN [ok |-> FALSE, clipboard |-> clip, copied |-> TRUE,
                                    ran |-> FALSE, failure |-> "copy"]
    ELSE [ok |-> env.type_ok, clipboard |-> text, copied |-> TRUE, ran |-> TRUE,
          failure |-> IF env.type_ok THEN None ELSE "ydotool"]

\* Faulty variant of _insert_auto_paste without the availability test: the
\* text is copied and the missing ydotool is run, which fails.
InsertAutoPasteFaulty(text, ydo, env, clip) ==
    IF ~env.copy[AUTO_PASTE] THEN [ok |-> FALSE, clipboard |-> clip, copied |-> TRUE,
                                   ran |-> FALSE, failure |-> "copy"]
    ELSE [ok |-> ydo /\ env.key_ok, clipboard |-> text, copied |-> TRUE, ran |-> TRUE,
          failure |-> IF ydo /\ env.key_ok THEN None ELSE "ydotool"]

\* _insert_auto_paste
InsertAutoPaste(text, ydo, env, clip) ==
    IF ~ydo THEN [ok |-> FALSE, clipboard |-> clip, copied |-> FALSE, ran |-> FALSE,
                  failure |-> "unavailable"]
    ELSE IF ~env.copy[AUTO_PASTE] THEN [ok |-> FALSE, clipboard |-> clip, copied |-> TRUE,
                                        ran |-> FALSE, failure |-> "copy"]
    ELSE [ok |-> env.key_ok, clipboard |-> text, copied |-> TRUE, ran |-> TRUE,
          failure |-> IF env.key_ok THEN None ELSE "ydotool"]

\* _insert_clipboard
InsertClipboard(text, env, clip) ==
    IF env.copy[CLIPBOARD]
    THEN [ok |-> TRUE, clipboard |-> text, copied |-> TRUE, ran |-> FALSE, failure |-> None]
    ELSE [ok |-> FALSE, clipboard |-> clip, copied |-> TRUE, ran |-> FALSE, failure |-> "copy"]

Attempt(method, text, ydo, env, clip) ==
    IF method = DIRECT THEN InsertDirect(text, ydo, env, clip)
    ELSE IF method = AUTO_PASTE THEN InsertAutoPaste(text, ydo, env, clip)
    ELSE InsertClipboard(text, env, clip)

\* One pass of the loop body, as recorded in the list of attempts.
Tried(method, r) ==
    [method |-> method, ok |-> r.ok, copied |-> r.copied, ran |-> r.ran, failure |-> r.failure]

RECURSIVE TryMethods(_, _, _, _, _, _)
\* The loop of insert_text over the remaining candidates ms.  No _insert_*
\* method lets an exception out, so "except Exception as e: last_error = e"
\* never runs and last_error is None when the loop ends.
TryMethods(ms, text, ydo, env, clip, last) ==
    IF ms = <<>>
    THEN [raised |-> TRUE, method |-> None, clipboard |-> clip, last |-> last,
          tried |-> <<>>,
          error |-> <<"All text insertion methods failed. Last error: ", None>>]
    ELSE LET r == Attempt(Head(ms), text, ydo, env, clip)
         IN IF r.ok
            THEN [raised |-> FALSE, method |-> Head(ms), clipboard |-> r.clipboard,
                  last |-> Head(ms), tried |-> <<Tried(Head(ms), r)>>, error |-> <<>>]
            ELSE LET rest == TryMethods(Tail(ms), text, ydo, env, r.clipboard, last)
                 IN [rest EXCEPT !.tried = <<Tried(Head(ms), r)>> \o @]

\* insert_text: the method returned (or raised), the clipboard and
\* _last_method_used afterwards, and the attempts made in order.
InsertText(text, pref, ydo, env, clip, last) ==
    IF text = <<>>
    THEN [raised |-> FALSE, method |-> CLIPBOARD, clipboard |-> clip, last |-> last,
          tried |-> <<>>, error |-> <<>>]
    ELSE TryMethods(Methods(pref), text, ydo, env, clip, last)

\* -------------------------------------------------------- Transcriber
\* The text transcribe_full_audio returns for the engine's segments.
FullText(segments) == Strip(Join(segments))

\* ------------------------------------------------------------- helpers
NoResult == [kind |-> None]

\* No response dict has been built yet in _handle_client.
NoReply == [status |-> None, message |-> <<>>, result |-> None]
\* A thread slot that has served no connection yet.
NoConn == [payload |-> None, seq |-> 0, reply |-> NoReply, written |-> <<>>,
           invoked |-> FALSE, closed |-> FALSE]
slot == <<count_read, snapshot, result>>

\* Task t is at l and no returned dict is waiting to be sent: a handler's
\* return value is sent before anything else happens, since sending touches
\* no field of the daemon.
At(t, l) == response = NoResult /\ pc[t] = l

Goto(t, l) == pc' = [pc EXCEPT ![t] = l]
Emit(t, e) == trace' = [trace EXCEPT ![t] = Append(@, e)]

\* The handler of task t returns the dict r to the transport (or, for the
\* window's slot, to the event loop): the task is free again.
Return(t, r) ==
    /\ response' = r
    /\ pc' = [pc EXCEPT ![t] = "idle"]
    /\ cmd' = [cmd EXCEPT ![t] = None]
    /\ trace' = [trace EXCEPT ![t] = <<>>]

\* Faulty variant of the length test: "if len(all_audio) >= 8000"
LongEnoughFaulty(audio) == NumSamples(audio) >= MinTranscribeSamples

\* "if len(all_audio) > 8000"
LongEnough(audio) == NumSamples(audio) > MinTranscribeSamples

\* "if transcription and transcription.strip()"
ShouldInsert(text) == text # <<>> /\ Strip(text) # <<>>

\* The state after WhisperDaemon and its components were constructed with
\* preferred method pref, the probe for ydotool having returned ydo.
Constructed(pref, ydo) ==
    /\ state = IDLE
    /\ session_start_time = 0
    /\ sessions_count = 0
    /\ running = TRUE
    /\ timers = 0
    /\ starts = 0
    /\ conn = [t \in Tasks |-> NoConn]
    /\ client = [endpoint |-> "listening", pc |-> "idle", command |-> None,
                 cause |-> None, result |-> NoReply]
    /\ inserted = NoResult
    /\ gate = [kind |-> None, total_frames |-> 0, voiced_frames |-> 0]
    /\ streaming = [recording |-> FALSE, audio_buffer |-> 0, stream |-> FALSE, lock |-> 0,
                    capture_thread |-> 0, task |-> [th \in 1..MaxSessions |-> None],
                    chunk |-> [th \in 1..MaxSessions |-> [n |-> 0, session |-> 0]],
                    callback |-> "idle", stop |-> "idle", session |-> 0,
                    delivered |-> 0, total_chunks |-> 0, joined |-> FALSE,
                    captured |-> 0, sliced |-> 0, forwarded |-> 0, remaining |-> 0,
                    waveform_raised |-> FALSE, chunk_raised |-> FALSE]
    /\ ipc_running = TRUE
    /\ model_loaded \in BOOLEAN
    /\ recording = FALSE
    /\ stream = FALSE
    /\ open_streams = 0
    /\ audio_buffer = <<>>
    /\ preferred_method = pref
    /\ ydotool_available = ydo
    /\ last_method_used = None
    /\ clipboard = <<>>
    /\ pc = [t \in Tasks |-> "idle"]
    /\ cmd = [t \in Tasks |-> None]
    /\ all_audio = [t \in Tasks |-> <<>>]
    /\ transcription = [t \in Tasks |-> <<>>]
    /\ insertion_method = [t \in Tasks |-> None]
    /\ count_read = [t \in Tasks |-> 0]
    /\ snapshot = [t \in Tasks |-> NoResult]
    /\ result = [t \in Tasks |-> NoResult]
    /\ trace = [t \in Tasks |-> <<>>]
    /\ response = NoResult

\* The daemon as configured by default, with ydotool installed.
Init == Constructed("auto", TRUE)

\* ------------------------------------------------- commands arriving
\* _accept_connections starts _handle_client on a thread of its own, which
\* calls the registered handler of the command.
ConnCommands == {"start", "stop", "status", "shutdown"}

\* Threads have no identity of their own: a new handler takes the first free one.
FirstFree(t) == pc[t] = "idle" /\ \A u \in Tasks : u < t => pc[u] # "idle"

FirstStep(c) ==
    CASE c = "start" -> "s_check"
      [] c = "stop" -> "p_check"
      [] c = "gui_stop" -> "p_check"
      [] c = "status" -> "q_recording"
      [] c = "shutdown" -> "sd_check"
      [] OTHER -> "td_check"

Enter(t, c) ==
    /\ response = NoResult
    /\ FirstFree(t)
    /\ pc' = [pc EXCEPT ![t] = FirstStep(c)]
    /\ cmd' = [cmd EXCEPT ![t] = c]

AcceptCommand(t, c) ==
    /\ ipc_running
    /\ c = "start" => starts < MaxStarts
    /\ c = "shutdown" => timers < MaxTimers
    /\ Enter(t, c)
    /\ starts' = IF c = "start" THEN starts + 1 ELSE starts
    /\ UNCHANGED <<conn, client, probe>>
    /\ UNCHANGED <<session, lifecycle, capture, injector, stop_locals, slot, trace, response>>

\* What _handle_client makes of a handler's outcome r, the dict it returned
\* or the exception it raised: "result = handler(**args); response =
\* {'status': 'success', 'result': result}", and "except Exception as e:
\* response = {'status': 'error', 'message': str(e)}"
Reply(r) ==
    IF "raised" \in DOMAIN r
    THEN [status |-> "error", message |-> <<r.raised>>, result |-> None]
    ELSE [status |-> "success", message |-> <<>>, result |-> r]

\* The response is written to the connection and the connection is closed.
SendResponse ==
    /\ response # NoResult
    /\ response' = NoResult
    /\ UNCHANGED <<shared, locals>>

\* ------------------------------------------------ AudioCapture.start
\* "if self.recording: return"
CaptureStartCheck(t) ==
    /\ At(t, "ac_start_check")
    /\ Goto(t, IF recording THEN "s_state" ELSE "ac_start_init")
    /\ UNCHANGED <<shared, cmd, stop_locals, slot, trace, response>>

\* "with self.lock: self.recording = True; self.audio_buffer = []; ..."
CaptureStartInit(t) ==
    /\ At(t, "ac_start_init")
    /\ recording' = TRUE
    /\ audio_buffer' = <<>>
    /\ Goto(t, "ac_start_open")
    /\ UNCHANGED <<clients, session, lifecycle, stream, open_streams, injector,
                   cmd, stop_locals, slot, trace, response>>

\* "self.stream = sd.InputStream(...); self.stream.start()"
CaptureStartOpen(t) ==
    /\ At(t, "ac_start_open")
    /\ stream' = TRUE
    /\ open_streams' = open_streams + 1
    /\ Emit(t, "arm")
    /\ Goto(t, "s_state")
    /\ UNCHANGED <<clients, session, lifecycle, recording, audio_buffer, injector,
                   cmd, stop_locals, slot, response>>

\* Faulty variant of the engine's except branch: the recording flag stays set.
CaptureStartFailFaulty(t) ==
    /\ At(t, "ac_start_open")
    /\ Goto(t, "s_exc")
    /\ UNCHANGED <<shared, cmd, stop_locals, slot, trace, response>>

\* "except Exception: self.recording = False; raise": the stream failed to open
CaptureStartFail(t) ==
    /\ At(t, "ac_start_open")
    /\ recording' = FALSE
    /\ Goto(t, "s_exc")
    /\ UNCHANGED <<clients, session, lifecycle, stream, open_streams, audio_buffer, injector,
                   cmd, stop_locals, slot, trace, response>>

\* ------------------------------------------- AudioCapture._audio_callback
\* Faulty variant of the callback: the block is put in front of the buffer.
DeliverFaulty(n, k) ==
    /\ response = NoResult
    /\ open_streams > 0
    /\ recording
    /\ Len(audio_buffer) < k
    /\ audio_buffer' = <<n>> \o audio_buffer
    /\ UNCHANGED <<clients, session, lifecycle, recording, stream, open_streams, injector,
                   locals, response>>

\* A running stream delivers n samples, the buffer holding fewer than k
\* blocks: "if not self.recording: return", then
\* "with self.lock: self.audio_buffer.extend(audio_data)".
Deliver(n, k) ==
    /\ response = NoResult
    /\ open_streams > 0
    /\ recording
    /\ Len(audio_buffer) < k
    /\ audio_buffer' = Append(audio_buffer, n)
    /\ UNCHANGED <<clients, session, lifecycle, recording, stream, open_streams, injector,
                   locals, response>>

\* A running stream delivers n samples; they are appended while recording.
AudioCallback(n) == Deliver(n, MaxBlocks)

\* ------------------------------------------------ AudioCapture.get_status
\* "'recording': self.recording, ..., 'buffer_size': len(self.audio_buffer)"
CaptureStatus == [recording |-> recording, buffer_size |-> NumSamples(audio_buffer)]

\* Faulty variant of the start check: "if self.state == SessionState.RECORDING",
\* which lets a start through while the previous session is being processed.
StartCheckFaulty(t) ==
    /\ At(t, "s_check")
    /\ IF state = RECORDING
       THEN /\ Goto(t, "s_reject")
            /\ UNCHANGED trace
       ELSE /\ Goto(t, "ac_start_check")
            /\ Emit(t, "reset")
    /\ UNCHANGED <<shared, cmd, stop_locals, slot, response>>

\* ------------------------------------ WhisperDaemon._handle_start_command
\* "if self.state != SessionState.IDLE"; an accepted start goes on to
\* transcriber.reset_transcription() and audio_capture.start()
StartCheck(t) ==
    /\ At(t, "s_check")
    /\ IF state # IDLE
       THEN /\ Goto(t, "s_reject")
            /\ UNCHANGED trace
       ELSE /\ Goto(t, "ac_start_check")
            /\ Emit(t, "reset")
    /\ UNCHANGED <<shared, cmd, stop_locals, slot, response>>

\* "return {success: False, message: f'Cannot start: already {self.state.value}'}"
StartReject(t) ==
    /\ At(t, "s_reject")
    /\ Return(t, [kind |-> "start", success |-> FALSE,
                  message |-> "Cannot start: already", named |-> state,
                  trace |-> trace[t]])
    /\ UNCHANGED <<shared, stop_locals, slot>>

\* "self.state = SessionState.RECORDING"
StartSetState(t) ==
    /\ At(t, "s_state")
    /\ state' = RECORDING
    /\ Goto(t, "s_time")
    /\ UNCHANGED <<clients, session_start_time, sessions_count, lifecycle, capture, injector,
                   cmd, stop_locals, slot, trace, response>>

\* "self.session_start_time = time.time()": a reading later than the last stamp
StartStamp(t) ==
    /\ At(t, "s_time")
    /\ session_start_time' = session_start_time + 1
    /\ Goto(t, "s_count_read")
    /\ UNCHANGED <<clients, state, sessions_count, lifecycle, capture, injector,
                   cmd, stop_locals, slot, trace, response>>

\* "self.sessions_count += 1": the read
StartCountRead(t) ==
    /\ At(t, "s_count_read")
    /\ count_read' = [count_read EXCEPT ![t] = sessions_count]
    /\ Goto(t, "s_count_write")
    /\ UNCHANGED <<shared, cmd, stop_locals, snapshot, result, trace, response>>

\* Faulty variant of the end of an accepted start: no show signal is emitted.
StartCountWriteFaulty(t) ==
    /\ At(t, "s_count_write")
    /\ sessions_count' = count_read[t] + 1
    /\ count_read' = [count_read EXCEPT ![t] = 0]
    /\ Goto(t, "s_ret")
    /\ UNCHANGED <<clients, state, session_start_time, lifecycle, capture, injector,
                   cmd, stop_locals, snapshot, result, trace, response>>

\* "self.sessions_count += 1": the write, then "self.show_window_signal.emit()"
StartCountWrite(t) ==
    /\ At(t, "s_count_write")
    /\ sessions_count' = count_read[t] + 1
    /\ count_read' = [count_read EXCEPT ![t] = 0]
    /\ Emit(t, "show")
    /\ Goto(t, "s_ret")
    /\ UNCHANGED <<clients, state, session_start_time, lifecycle, capture, injector,
                   cmd, stop_locals, snapshot, result, response>>

\* "return {success: True, session_id: f'session_{self.sessions_count}', start_time: ...}"
StartReturn(t) ==
    /\ At(t, "s_ret")
    /\ Return(t, [kind |-> "start", success |-> TRUE, message |-> "Recording started",
                  session_id |-> sessions_count, start_time |-> session_start_time,
                  trace |-> trace[t]])
    /\ UNCHANGED <<shared, stop_locals, slot>>

\* Faulty variant of the start handler's except branch: the state is reset
\* and the exception is raised again, to the transport.
StartExceptFaulty(t) ==
    /\ At(t, "s_exc")
    /\ state' = IDLE
    /\ Return(t, [kind |-> "start", success |-> FALSE, raised |-> "stream",
                  message |-> "Failed to start recording", named |-> None,
                  trace |-> trace[t]])
    /\ UNCHANGED <<clients, session_start_time, sessions_count, lifecycle, capture, injector,
                   stop_locals, slot>>

\* "except Exception: self.state = SessionState.IDLE; return {success: False, ...}"
StartExcept(t) ==
    /\ At(t, "s_exc")
    /\ state' = IDLE
    /\ Return(t, [kind |-> "start", success |-> FALSE,
                  message |-> "Failed to start recording", named |-> None,
                  trace |-> trace[t]])
    /\ UNCHANGED <<clients, session_start_time, sessions_count, lifecycle, capture, injector,
                   stop_locals, slot>>

HandleStartCommand(t) ==
    \/ StartCheck(t)
    \/ StartReject(t)
    \/ CaptureStartCheck(t)
    \/ CaptureStartInit(t)
    \/ CaptureStartOpen(t)
    \/ CaptureStartFail(t)
    \/ StartSetState(t)
    \/ StartStamp(t)
    \/ StartCountRead(t)
    \/ StartCountWrite(t)
    \/ StartReturn(t)
    \/ StartExcept(t)

\* ------------------------------------------------- AudioCapture.stop
\* Where a caller of audio_capture.stop() goes on: _handle_stop_command
\* tests the length, shutdown() goes on to transcriber.stop_processing().
AfterDrain(t, audio) ==
    IF cmd[t] = "teardown" THEN "td_ipc"
    ELSE IF LongEnough(audio) THEN "p_tr_begin"
    ELSE "p_insert"

\* Where an exception of audio_capture.stop() is caught.
AfterDrainRaised(t) == IF cmd[t] = "teardown" THEN "td_ipc" ELSE "p_exc"

\* "with self.lock: self.recording = False"
CaptureStopFlag(t) ==
    /\ At(t, "ac_stop_flag")
    /\ recording' = FALSE
    /\ Goto(t, "ac_stop_stream")
    /\ UNCHANGED <<clients, session, lifecycle, stream, open_streams, audio_buffer, injector,
                   cmd, stop_locals, slot, trace, response>>

\* "if self.stream: self.stream.stop(); self.stream.close(); self.stream = None"
CaptureStopStream(t) ==
    /\ At(t, "ac_stop_stream")
    /\ IF stream
       THEN /\ stream' = FALSE
            /\ open_streams' = open_streams - 1
       ELSE UNCHANGED <<stream, open_streams>>
    /\ Goto(t, "ac_stop_read")
    /\ UNCHANGED <<clients, session, lifecycle, recording, audio_buffer, injector,
                   cmd, stop_locals, slot, trace, response>>

\* self.stream.stop() raises: the stream stays as it is
CaptureStopStreamFail(t) ==
    /\ At(t, "ac_stop_stream")
    /\ stream
    /\ Goto(t, AfterDrainRaised(t))
    /\ UNCHANGED <<shared, cmd, stop_locals, slot, trace, response>>

\* "remaining_audio = np.array(self.audio_buffer, dtype=np.float32); return remaining_audio"
CaptureStopRead(t) ==
    /\ At(t, "ac_stop_read")
    /\ all_audio' = [all_audio EXCEPT ![t] = IF cmd[t] = "teardown" THEN <<>> ELSE audio_buffer]
    /\ Emit(t, "drain")
    /\ Goto(t, AfterDrain(t, audio_buffer))
    /\ UNCHANGED <<shared, cmd, transcription, insertion_method, slot, response>>

\* ------------------------------------- WhisperDaemon._handle_stop_command
\* _handle_stop_command returns r: to the transport, to the window's slot
\* (which keeps it in result) or to _handle_shutdown_command (which drops it).
StopDone(t, r) ==
    /\ all_audio' = [all_audio EXCEPT ![t] = <<>>]
    /\ transcription' = [transcription EXCEPT ![t] = <<>>]
    /\ insertion_method' = [insertion_method EXCEPT ![t] = None]
    /\ IF cmd[t] = "stop"
       THEN /\ Return(t, r)
            /\ UNCHANGED result
       ELSE /\ Goto(t, IF cmd[t] = "gui_stop" THEN "g_hide" ELSE "sd_timer")
            /\ result' = [result EXCEPT ![t] = IF cmd[t] = "gui_stop" THEN r ELSE NoResult]
            /\ UNCHANGED <<cmd, trace, response>>

\* Faulty variant of the stop rejection: it also resets the state, as the
\* except branch does.
StopRejectFaulty(t) ==
    /\ At(t, "p_check")
    /\ state # RECORDING
    /\ state' = IDLE
    /\ StopDone(t, [kind |-> "stop", success |-> FALSE,
                    message |-> "No recording in progress", trace |-> trace[t]])
    /\ UNCHANGED <<clients, session_start_time, sessions_count, lifecycle, capture, injector,
                   count_read, snapshot>>

\* "if self.state != SessionState.RECORDING: return {success: False, ...}"
StopReject(t) ==
    /\ At(t, "p_check")
    /\ state # RECORDING
    /\ StopDone(t, [kind |-> "stop", success |-> FALSE,
                    message |-> "No recording in progress", trace |-> trace[t]])
    /\ UNCHANGED <<shared, count_read, snapshot>>

\* the state is Recording: "self.hide_window_signal.emit()"
StopCheck(t) ==
    /\ At(t, "p_check")
    /\ state = RECORDING
    /\ Goto(t, "p_state")
    /\ Emit(t, "hide")
    /\ UNCHANGED <<shared, cmd, stop_locals, slot, response>>

\* "self.state = SessionState.PROCESSING"
StopSetState(t) ==
    /\ At(t, "p_state")
    /\ state' = PROCESSING
    /\ Goto(t, "ac_stop_flag")
    /\ UNCHANGED <<clients, session_start_time, sessions_count, lifecycle, capture, injector,
                   cmd, stop_locals, slot, trace, response>>

\* transcribe_full_audio: "if not self.model: raise RuntimeError('Model not loaded')";
\* all_audio is handed to the engine and not read again.
TranscribeBegin(t) ==
    /\ At(t, "p_tr_begin")
    /\ IF model_loaded
       THEN /\ Goto(t, "p_tr_end")
            /\ Emit(t, "transcribe")
       ELSE /\ Goto(t, "p_exc")
            /\ Emit(t, "transcribe_raised")
    /\ all_audio' = [all_audio EXCEPT ![t] = <<>>]
    /\ UNCHANGED <<shared, cmd, transcription, insertion_method, slot, response>>

\* self.model.transcribe(...) returns segments; "return text"
TranscribeEnd(t, segments) ==
    /\ At(t, "p_tr_end")
    /\ transcription' = [transcription EXCEPT ![t] = FullText(segments)]
    /\ Goto(t, "p_insert")
    /\ UNCHANGED <<shared, cmd, all_audio, insertion_method, slot, trace, response>>

\* self.model.transcribe(...) raises: "except Exception: return ''"
TranscribeError(t) ==
    /\ At(t, "p_tr_end")
    /\ transcription' = [transcription EXCEPT ![t] = <<>>]
    /\ Emit(t, "transcribe_failed")
    /\ Goto(t, "p_insert")
    /\ UNCHANGED <<shared, cmd, all_audio, insertion_method, slot, response>>

\* Faulty variant of the insertion step: the except branch leaves
\* insertion_method as it was.
StopInsertFaulty(t, env) ==
    /\ At(t, "p_insert")
    /\ IF ShouldInsert(transcription[t])
       THEN LET r == InsertText(transcription[t], preferred_method, ydotool_available,
                                env, clipboard, last_method_used)
            IN /\ insertion_method' = [insertion_method EXCEPT ![t] =
                                          IF r.raised THEN @ ELSE r.method]
               /\ clipboard' = r.clipboard
               /\ last_method_used' = r.last
               /\ Emit(t, IF r.raised THEN "insert_raised" ELSE "insert")
       ELSE UNCHANGED <<insertion_method, clipboard, last_method_used, trace>>
    /\ Goto(t, "p_idle")
    /\ all_audio' = [all_audio EXCEPT ![t] = <<>>]
    /\ UNCHANGED <<clients, session, lifecycle, capture, preferred_method, ydotool_available,
                   cmd, transcription, slot, response>>

\* "if transcription and transcription.strip(): try: insert_text(...)
\*  except Exception: insertion_method = InsertionMethod.CLIPBOARD";
\* all_audio was last read by the length test.
StopInsert(t, env) ==
    /\ At(t, "p_insert")
    /\ IF ShouldInsert(transcription[t])
       THEN LET r == InsertText(transcription[t], preferred_method, ydotool_available,
                                env, clipboard, last_method_used)
            IN /\ insertion_method' = [insertion_method EXCEPT ![t] =
                                          IF r.raised THEN CLIPBOARD ELSE r.method]
               /\ clipboard' = r.clipboard
               /\ last_method_used' = r.last
               /\ Emit(t, IF r.raised THEN "insert_raised" ELSE "insert")
       ELSE UNCHANGED <<insertion_method, clipboard, last_method_used, trace>>
    /\ Goto(t, "p_idle")
    /\ all_audio' = [all_audio EXCEPT ![t] = <<>>]
    /\ UNCHANGED <<clients, session, lifecycle, capture, preferred_method, ydotool_available,
                   cmd, transcription, slot, response>>

\* "self.state = SessionState.IDLE"
StopSetIdle(t) ==
    /\ At(t, "p_idle")
    /\ state' = IDLE
    /\ Goto(t, "p_ret")
    /\ UNCHANGED <<clients, session_start_time, sessions_count, lifecycle, capture, injector,
                   cmd, stop_locals, slot, trace, response>>

\* "return {success: True, transcription: ..., insertion_method: ..., word_count: ...}"
StopReturn(t) ==
    /\ At(t, "p_ret")
    /\ StopDone(t, [kind |-> "stop", success |-> TRUE, message |-> "Recording stopped",
                    transcription |-> transcription[t],
                    insertion_method |-> insertion_method[t],
                    word_count |-> IF transcription[t] # <<>>
                                   THEN WordCount(transcription[t]) ELSE 0,
                    trace |-> trace[t]])
    /\ UNCHANGED <<shared, count_read, snapshot>>

\* Faulty variant of the stop handler's except branch: the state is not reset.
StopExceptFaulty(t) ==
    /\ At(t, "p_exc")
    /\ StopDone(t, [kind |-> "stop", success |-> FALSE,
                    message |-> "Failed to stop recording", trace |-> trace[t]])
    /\ UNCHANGED <<shared, count_read, snapshot>>

\* "except Exception: self.state = SessionState.IDLE; return {success: False, ...}"
StopExcept(t) ==
    /\ At(t, "p_exc")
    /\ state' = IDLE
    /\ StopDone(t, [kind |-> "stop", success |-> FALSE,
                    message |-> "Failed to stop recording", trace |-> trace[t]])
    /\ UNCHANGED <<clients, session_start_time, sessions_count, lifecycle, capture, injector,
                   count_read, snapshot>>

HandleStopCommand(t) ==
    \/ StopReject(t)
    \/ StopCheck(t)
    \/ StopSetState(t)
    \/ CaptureStopFlag(t)
    \/ CaptureStopStream(t)
    \/ CaptureStopStreamFail(t)
    \/ CaptureStopRead(t)
    \/ TranscribeBegin(t)
    \/ \E segments \in SegmentLists : TranscribeEnd(t, segments)
    \/ TranscribeError(t)
    \/ \E env \in Envs : StopInsert(t, env)
    \/ StopSetIdle(t)
    \/ StopReturn(t)
    \/ StopExcept(t)

\* --------------------------------- WhisperDaemon._handle_gui_stop_request
\* The window's stop_requested signal reaches the slot on the Qt main thread;
\* the window exists to be closed once it has been shown.
GuiStopRequested(t) ==
    /\ sessions_count > 0
    /\ \A u \in Tasks : cmd[u] # "gui_stop"
    /\ Enter(t, "gui_stop")
    /\ UNCHANGED <<shared, stop_locals, slot, trace, response>>

\* Faulty variant of the slot's last step: the hide signal is emitted whatever
\* the stop returned.
GuiStopHideFaulty(t) ==
    /\ At(t, "g_hide")
    /\ Return(t, [kind |-> "gui_stop", success |-> result[t].success,
                  stop |-> result[t], trace |-> Append(trace[t], "hide")])
    /\ result' = [result EXCEPT ![t] = NoResult]
    /\ UNCHANGED <<shared, stop_locals, count_read, snapshot>>

\* "if self.gui_window and result.get('success'): self.hide_window_signal.emit()"
GuiStopHide(t) ==
    /\ At(t, "g_hide")
    /\ Return(t, [kind |-> "gui_stop", success |-> result[t].success,
                  stop |-> result[t],
                  trace |-> IF result[t].success THEN Append(trace[t], "hide")
                            ELSE trace[t]])
    /\ result' = [result EXCEPT ![t] = NoResult]
    /\ UNCHANGED <<shared, stop_locals, count_read, snapshot>>

\* Faulty variant of the status handler's first step: it clears the start
\* time of a session that is not recording.
StatusRecordingFaulty(t) ==
    /\ At(t, "q_recording")
    /\ snapshot' = [snapshot EXCEPT ![t] = [kind |-> "status", rec |-> (state = RECORDING)]]
    /\ session_start_time' = IF state = RECORDING THEN session_start_time ELSE 0
    /\ Goto(t, "q_state")
    /\ UNCHANGED <<clients, state, sessions_count, lifecycle, capture, injector,
                   cmd, stop_locals, count_read, result, trace, response>>

\* ----------------------------------- WhisperDaemon._handle_status_command
\* The get_status() calls of the components only read; the dict is built
\* field by field.  "'recording': self.state == SessionState.RECORDING"
StatusRecording(t) ==
    /\ At(t, "q_recording")
    /\ snapshot' = [snapshot EXCEPT ![t] = [kind |-> "status", rec |-> (state = RECORDING)]]
    /\ Goto(t, "q_state")
    /\ UNCHANGED <<shared, cmd, stop_locals, count_read, result, trace, response>>

\* "'state': self.state.value"; the dict is returned
StatusReturn(t) ==
    /\ At(t, "q_state")
    /\ Return(t, [kind |-> "status", success |-> TRUE,
                  recording |-> snapshot[t].rec, state |-> state,
                  trace |-> trace[t]])
    /\ snapshot' = [snapshot EXCEPT ![t] = NoResult]
    /\ UNCHANGED <<shared, stop_locals, count_read, result>>

HandleStatusCommand(t) ==
    \/ StatusRecording(t)
    \/ StatusReturn(t)

\* Faulty variant of the shutdown handler's first step: the recording in
\* progress is not stopped before the timer is started.
ShutdownCheckFaulty(t) ==
    /\ At(t, "sd_check")
    /\ Goto(t, "sd_timer")
    /\ UNCHANGED <<shared, cmd, stop_locals, slot, trace, response>>

\* --------------------------------- WhisperDaemon._handle_shutdown_command
\* "if self.state == SessionState.RECORDING: self._handle_stop_command()"
ShutdownCheck(t) ==
    /\ At(t, "sd_check")
    /\ Goto(t, IF state = RECORDING THEN "p_check" ELSE "sd_timer")
    /\ UNCHANGED <<shared, cmd, stop_locals, slot, trace, response>>

\* "threading.Timer(0.5, self.shutdown).start(); return {success: True, ...}"
ShutdownSchedule(t) ==
    /\ At(t, "sd_timer")
    /\ timers' = timers + 1
    /\ Return(t, [kind |-> "shutdown", success |-> TRUE,
                  message |-> "Daemon shutting down",
                  trace |-> Append(trace[t], "timer")])
    /\ UNCHANGED <<clients, session, running, ipc_running, model_loaded, capture, injector,
                   stop_locals, slot>>

HandleShutdownCommand(t) ==
    \/ ShutdownCheck(t)
    \/ ShutdownSchedule(t)

\* ------------------------------------------------ WhisperDaemon.shutdown
\* The timer of a shutdown command fires on a thread of its own.
TimerFires(t) ==
    /\ timers > 0
    /\ timers' = timers - 1
    /\ Enter(t, "teardown")
    /\ UNCHANGED <<clients, session, running, ipc_running, model_loaded, capture, injector,
                   stop_locals, slot, trace, response>>

\* _signal_handler: SIGINT or SIGTERM arrives
SignalHandler(t) ==
    /\ running
    /\ Enter(t, "teardown")
    /\ UNCHANGED <<shared, stop_locals, slot, trace, response>>

\* "if not self.running: return"
TeardownCheck(t) ==
    /\ At(t, "td_check")
    /\ IF running
       THEN /\ Goto(t, "td_flag")
            /\ UNCHANGED <<cmd, trace, response>>
       ELSE Return(t, [kind |-> "teardown", done |-> FALSE, trace |-> trace[t]])
    /\ UNCHANGED <<shared, stop_locals, slot>>

\* "self.running = False"
TeardownFlag(t) ==
    /\ At(t, "td_flag")
    /\ running' = FALSE
    /\ Goto(t, "td_rec")
    /\ UNCHANGED <<clients, session, timers, ipc_running, model_loaded, capture, injector,
                   cmd, stop_locals, slot, trace, response>>

\* "if self.state == SessionState.RECORDING: self.audio_capture.stop(); ..."
TeardownRecording(t) ==
    /\ At(t, "td_rec")
    /\ Goto(t, IF state = RECORDING THEN "ac_stop_flag" ELSE "td_ipc")
    /\ UNCHANGED <<shared, cmd, stop_locals, slot, trace, response>>

\* "self.ipc_server.stop()": IPCServer.running = False, the socket is closed
TeardownIpc(t) ==
    /\ At(t, "td_ipc")
    /\ ipc_running' = FALSE
    /\ Emit(t, "ipc_stop")
    /\ Goto(t, "td_unload")
    /\ UNCHANGED <<clients, session, running, timers, model_loaded, capture, injector,
                   cmd, stop_locals, slot, response>>

\* "self.transcriber.unload_model()", then "self.gui_window.close()"
TeardownUnload(t) ==
    /\ At(t, "td_unload")
    /\ model_loaded' = FALSE
    /\ Return(t, [kind |-> "teardown", done |-> TRUE, trace |-> Append(trace[t], "unload")])
    /\ UNCHANGED <<clients, session, running, timers, ipc_running, capture, injector,
                   stop_locals, slot>>

Shutdown(t) ==
    \/ TeardownCheck(t)
    \/ TeardownFlag(t)
    \/ TeardownRecording(t)
    \/ TeardownIpc(t)
    \/ TeardownUnload(t)

\* ---------------------------------------------------------------- Next
\* The commands of a dictation session.
SessionCommands == {"start", "stop", "status"}

\* Session commands served concurrently, one thread per connection, while
\* the stream's callback thread delivers audio.
Serve ==
    \/ \E t \in Tasks, c \in SessionCommands : AcceptCommand(t, c)
    \/ \E t \in Tasks : HandleStartCommand(t)
    \/ \E t \in Tasks : HandleStopCommand(t)
    \/ \E t \in Tasks : HandleStatusCommand(t)
    \/ \E n \in FrameCounts : AudioCallback(n)

Next ==
    \/ SendResponse
    \/ Serve

Spec == Init /\ [][Next]_vars

\* No handler is running.
Quiescent == \A t \in Tasks : pc[t] = "idle"

\* Every command and the window's stop request, each sent after the
\* previous one was answered, up to the moment a shutdown timer fires.
ServeInTurn ==
    \/ Quiescent /\ \E t \in Tasks, c \in ConnCommands : AcceptCommand(t, c)
    \/ Quiescent /\ \E t \in Tasks : GuiStopRequested(t)
    \/ \E t \in Tasks : HandleStartCommand(t)
    \/ \E t \in Tasks : HandleStopCommand(t)
    \/ \E t \in Tasks : GuiStopHide(t)
    \/ \E t \in Tasks : HandleStatusCommand(t)
    \/ \E t \in Tasks : HandleShutdownCommand(t)
    \/ \E n \in FrameCounts : AudioCallback(n)

NextInTurn ==
    \/ SendResponse
    \/ ServeInTurn

SpecInTurn == Init /\ [][NextInTurn]_vars

\* Commands sent in turn while the daemon can be torn down at any moment: a
\* shutdown timer fires or a termination signal arrives, and shutdown() runs
\* beside whatever handler is in progress.
ServeUntilTeardown ==
    \/ Quiescent /\ \E t \in Tasks, c \in ConnCommands : AcceptCommand(t, c)
    \/ \E t \in Tasks : TimerFires(t)
    \/ \E t \in Tasks : SignalHandler(t)
    \/ \E t \in Tasks : HandleStartCommand(t)
    \/ \E t \in Tasks : HandleStopCommand(t)
    \/ \E t \in Tasks : HandleStatusCommand(t)
    \/ \E t \in Tasks : HandleShutdownCommand(t)
    \/ \E t \in Tasks : Shutdown(t)
    \/ \E n \in FrameCounts : AudioCallback(n)

NextTeardown ==
    \/ SendResponse
    \/ ServeUntilTeardown

SpecTeardown == Init /\ [][NextTeardown]_vars

\* The capture engine over whole sessions: start, stop and status commands
\* sent in turn, the stream delivering up to MaxDelivered blocks a session.
ServeBatch ==
    \/ Quiescent /\ \E t \in Tasks, c \in SessionCommands : AcceptCommand(t, c)
    \/ \E t \in Tasks : HandleStartCommand(t)
    \/ \E t \in Tasks : HandleStopCommand(t)
    \/ \E t \in Tasks : HandleStatusCommand(t)
    \/ \E n \in FrameCounts : Deliver(n, MaxDelivered)

NextBatch ==
    \/ SendResponse
    \/ ServeBatch

SpecBatch == Init /\ [][NextBatch]_vars

\* ------------------------------------------------ IPCServer._handle_client
\* What a client may send: nothing, bytes that are not UTF-8, text that is
\* not JSON, JSON that is not an object, and an object naming a registered
\* or an unregistered command.
Payloads == {"empty", "bad_utf8", "bad_json", "non_object", "known", "unknown"}

\* message.get("command") of an object payload
CommandOf(p) == IF p = "known" THEN "status" ELSE "bogus"

\* str(e) of the exceptions a registered handler may raise
HandlerErrors == {"boom"}

\* Connections accepted so far: the highest sequence number handed out.
Accepted ==
    CHOOSE n \in 0..MaxConns :
        /\ \E t \in Tasks : conn[t].seq = n
        /\ \A u \in Tasks : conn[u].seq <= n

\* Thread t of _handle_client moves to l with its connection record c.
Step(t, l, c) ==
    /\ Goto(t, l)
    /\ conn' = [conn EXCEPT ![t] = c]
    /\ UNCHANGED <<starts, client, probe, session, lifecycle, capture, injector,
                   cmd, stop_locals, slot, trace, response>>

\* "client_socket, _ = self.server_socket.accept()" and the thread started
\* for the connection, on which the client has sent payload p.
Connect(t, p) ==
    /\ ipc_running
    /\ pc[t] = "idle"
    /\ Accepted < MaxConns
    /\ Step(t, "h_recv", [NoConn EXCEPT !.payload = p, !.seq = Accepted + 1])

\* "data = client_socket.recv(4096).decode('utf-8')": the decoding raises on
\* bytes that are not UTF-8; "if not data: return"
ClientRecv(t) ==
    /\ At(t, "h_recv")
    /\ Step(t, CASE conn[t].payload = "empty" -> "h_close"
                 [] conn[t].payload = "bad_utf8" -> "h_except"
                 [] OTHER -> "h_parse",
            conn[t])

\* Faulty variant of the parse step: text that is not JSON is treated like
\* any other exception, without a response.
ClientParseFaulty(t) ==
    /\ At(t, "h_parse")
    /\ Step(t, IF conn[t].payload \in {"bad_json", "non_object"} THEN "h_except" ELSE "h_lookup",
            conn[t])

\* "message = json.loads(data); command = message.get('command')": json.loads
\* raises JSONDecodeError, answered with "Invalid JSON"; message.get raises
\* AttributeError on a value that is not an object, which only the outer
\* except catches.
ClientParse(t) ==
    /\ At(t, "h_parse")
    /\ CASE conn[t].payload = "bad_json" ->
               Step(t, "h_send", [conn[t] EXCEPT !.reply =
                       [status |-> "error", message |-> <<"Invalid JSON">>, result |-> None]])
         [] conn[t].payload = "non_object" -> Step(t, "h_except", conn[t])
         [] OTHER -> Step(t, "h_lookup", conn[t])

\* "handler = self.command_handlers.get(command)"; without a handler
\* "response = {'status': 'error', 'message': f'Unknown command: {command}'}"
ClientLookup(t) ==
    /\ At(t, "h_lookup")
    /\ IF conn[t].payload = "known"
       THEN Step(t, "h_call", conn[t])
       ELSE Step(t, "h_send", [conn[t] EXCEPT !.reply =
                    [status |-> "error",
                     message |-> <<"Unknown command: ", CommandOf(conn[t].payload)>>,
                     result |-> None]])

\* "result = handler(**args); response = {'status': 'success', 'result': result}"
ClientCallReturns(t) ==
    /\ At(t, "h_call")
    /\ Step(t, "h_send", [conn[t] EXCEPT !.invoked = TRUE, !.reply =
                 [status |-> "success", message |-> <<>>, result |-> CommandOf(conn[t].payload)]])

\* Faulty variant of the inner except branch: the exception leaves the thread
\* without a response.
ClientCallRaisesFaulty(t, e) ==
    /\ At(t, "h_call")
    /\ Step(t, "h_except", [conn[t] EXCEPT !.invoked = TRUE])

\* "except Exception as e: response = {'status': 'error', 'message': str(e)}"
ClientCallRaises(t, e) ==
    /\ At(t, "h_call")
    /\ Step(t, "h_send", [conn[t] EXCEPT !.invoked = TRUE, !.reply =
                 [status |-> "error", message |-> <<e>>, result |-> None]])

\* "client_socket.sendall(json.dumps(response).encode('utf-8'))"
ClientSend(t) ==
    /\ At(t, "h_send")
    /\ Step(t, "h_close", [conn[t] EXCEPT !.written = Append(@, conn[t].reply)])

\* "except Exception as e: logger.error(...)": nothing is written
ClientExcept(t) ==
    /\ At(t, "h_except")
    /\ Step(t, "h_close", conn[t])

\* "finally: client_socket.close()"
ClientClose(t) ==
    /\ At(t, "h_close")
    /\ Step(t, "idle", [conn[t] EXCEPT !.closed = TRUE])

HandleClient(t) ==
    \/ ClientRecv(t)
    \/ ClientParse(t)
    \/ ClientLookup(t)
    \/ ClientCallReturns(t)
    \/ \E e \in HandlerErrors : ClientCallRaises(t, e)
    \/ ClientSend(t)
    \/ ClientExcept(t)
    \/ ClientClose(t)

\* The transport alone: connections are accepted while earlier ones are
\* still being handled, each on a thread of its own.
NextIpc ==
    \/ \E t \in Tasks, p \in Payloads : Connect(t, p)
    \/ \E t \in Tasks : HandleClient(t)

SpecIpc == Init /\ [][NextIpc]_vars

\* ------------------------------------------------ IPCClient.send_command
\* The socket path is absent (the daemon never ran or stopped cleanly), is
\* a file nobody listens on (the daemon died), or has the daemon listening.
Endpoints == {"absent", "stale", "listening"}

\* Exceptions the socket and JSON calls of send_command raise, with str(e).
Raised == [FileNotFoundError |-> "No such file or directory",
           ConnectionRefusedError |-> "Connection refused",
           timeout |-> "timed out",
           ConnectionResetError |-> "Connection reset by peer",
           JSONDecodeError |-> "Expecting value"]

NotRunningMessage == <<"Daemon is not running. Start it with: systemctl --user start whisper-daemon">>
TimedOutMessage == <<"Command timed out">>
CommunicationError(text) == <<"Communication error: ", text>>

\* Responses the daemon writes to a command.
ServerReplies ==
    {[status |-> "success", message |-> <<>>, result |-> "ok"],
     [status |-> "error", message |-> <<"boom">>, result |-> None]}

\* "except FileNotFoundError: ... except socket.timeout: ... except Exception as e: ..."
Catch(exc) ==
    [status |-> "error", result |-> None,
     message |-> CASE exc = "FileNotFoundError" -> NotRunningMessage
                   [] exc = "timeout" -> TimedOutMessage
                   [] OTHER -> CommunicationError(Raised[exc])]

\* The daemon starts, stops (IPCServer.stop removes the socket file) or dies.
EndpointChanges(e) ==
    /\ client.endpoint # e
    /\ client' = [client EXCEPT !.endpoint = e]
    /\ UNCHANGED <<starts, conn, probe, session, lifecycle, capture, injector, locals, response>>

\* send_command(c) is called.
SendCommandCall(c) ==
    /\ client.pc = "idle"
    /\ client' = [client EXCEPT !.pc = "c_connect", !.command = c,
                                 !.cause = None, !.result = NoReply]
    /\ UNCHANGED <<starts, conn, probe, session, lifecycle, capture, injector, locals, response>>

\* send_command returns r; cause says what the transport did.
SendCommandReturn(r, cause) ==
    /\ client' = [client EXCEPT !.pc = "idle", !.result = r, !.cause = cause]
    /\ UNCHANGED <<starts, conn, probe, session, lifecycle, capture, injector, locals, response>>

\* "client_socket.connect(self.socket_path)": no file, no listener, a full
\* backlog (the connect times out), or connected and the command sent
SendCommandConnect ==
    /\ client.pc = "c_connect"
    /\ CASE client.endpoint = "absent" -> SendCommandReturn(Catch("FileNotFoundError"), "absent")
         [] client.endpoint = "stale" -> SendCommandReturn(Catch("ConnectionRefusedError"), "stale")
         [] OTHER ->
              \/ SendCommandReturn(Catch("timeout"), "timeout")
              \/ /\ client' = [client EXCEPT !.pc = "c_recv"]
                 /\ UNCHANGED <<starts, conn, probe, session, lifecycle, capture, injector,
                                locals, response>>

\* "data = client_socket.recv(4096).decode('utf-8'); response = json.loads(data);
\* return response": the daemon answers, answers nothing within 5 s, closes
\* the connection without a response, or is gone
SendCommandRecv ==
    /\ client.pc = "c_recv"
    /\ \/ \E r \in ServerReplies : SendCommandReturn(r, "answered")
       \/ SendCommandReturn(Catch("timeout"), "timeout")
       \/ SendCommandReturn(Catch("JSONDecodeError"), "closed")
       \/ SendCommandReturn(Catch("ConnectionResetError"), "reset")

NextClient ==
    \/ \E e \in Endpoints : EndpointChanges(e)
    \/ \E c \in ConnCommands : SendCommandCall(c)
    \/ SendCommandConnect
    \/ SendCommandRecv

SpecClient == Init /\ [][NextClient]_vars

\* ------------------------------------------------ TextInjector.insert_text
\* Texts handed to insert_text: none, one word, two words with blanks.
Texts == {<<>>, <<"w">>, Words}

\* insert_text(text) is called on the injector while the desktop behaves as env.
InsertTextCall(text, env) ==
    /\ LET r == InsertText(text, preferred_method, ydotool_available, env,
                           clipboard, last_method_used)
       IN /\ inserted' = [kind |-> "insert", text |-> text, env |-> env,
                          clipboard |-> clipboard, last |-> last_method_used, out |-> r]
          /\ clipboard' = r.clipboard
          /\ last_method_used' = r.last
    /\ UNCHANGED <<starts, conn, client, gate, streaming, session, lifecycle, capture,
                   preferred_method, ydotool_available, locals, response>>

NextInjector == \E text \in Texts, env \in Envs : InsertTextCall(text, env)

\* The injector alone, constructed with any preference and with or without
\* ydotool on the path.
InitInjector == \E pref \in PreferredMethods, ydo \in BOOLEAN : Constructed(pref, ydo)

SpecInjector == InitInjector /\ [][NextInjector]_vars

\* ---------------------------------------------- AudioCapture._contains_voice
\* What the classifier does with a frame: speech, no speech, or it raises.
Verdicts == {"voiced", "silent", "error"}

Repeat(x, n) == [i \in 1..n |-> x]

\* Chunks by the verdicts of their full frames: two runs of equal verdicts
\* and a short third run, in every order of the verdicts ...
FrameLists ==
    {Repeat(q[1], q[4]) \o Repeat(q[2], q[5]) \o Repeat(q[3], q[6]) :
        q \in {r \in Verdicts \X Verdicts \X Verdicts \X (0..MaxFrames) \X (0..MaxFrames)
                       \X (0..MaxTail) :
                  /\ r[1] # r[2] /\ r[2] # r[3] /\ r[1] # r[3]
                  /\ r[4] + r[5] + r[6] <= MaxFrames}}

\* ... followed by the samples of an incomplete frame: none or one.
Rests == {0, 1}

\* len(audio) of a chunk
ChunkSamples(chunk) == Len(chunk.frames) * FrameSamples + chunk.rest

\* len(range(start, stop, step)) for a positive step
RangeLen(start, stop, step) ==
    IF stop <= start THEN 0 ELSE (stop - start + step - 1) \div step

\* Faulty variant of the gate: "return voice_ratio > 0.15"
ContainsVoiceFaulty(chunk) ==
    LET len == RangeLen(0, ChunkSamples(chunk) - FrameSamples, FrameSamples)
        fc == Cardinality({j \in 1..len : chunk.frames[j] # "error"})
        vc == Cardinality({j \in 1..len : chunk.frames[j] = "voiced"})
    IN [offered |-> len, frame_count |-> fc, voiced_count |-> vc,
        accepted |-> fc # 0 /\ 100 * vc > 15 * fc]

\* _contains_voice(audio, frame_samples): the frames starting at
\* range(0, len(audio) - frame_samples, frame_samples) are offered to the
\* classifier; frame_count counts those it classified, voiced_count the
\* speech among them; "if frame_count == 0: return False" and
\* "return voiced_count / frame_count >= 0.15".  The quotient of two small
\* integers rounds to the double of 0.15 exactly when it equals 3/20, so the
\* comparison is the one of the exact ratio.
ContainsVoice(chunk) ==
    LET len == RangeLen(0, ChunkSamples(chunk) - FrameSamples, FrameSamples)
        fc == Cardinality({j \in 1..len : chunk.frames[j] # "error"})
        vc == Cardinality({j \in 1..len : chunk.frames[j] = "voiced"})
    IN [offered |-> len, frame_count |-> fc, voiced_count |-> vc,
        accepted |-> fc # 0 /\ 100 * vc >= 15 * fc]

\* _contains_voice is called on a chunk; self.total_frames and
\* self.voiced_frames grow by what the call counted.
ContainsVoiceCall(frames, rest) ==
    /\ gate.total_frames <= MaxPriorFrames
    /\ IF gate.kind = None THEN TRUE ELSE Len(gate.chunk.frames) <= MaxPriorFrames
    /\ LET chunk == [frames |-> frames, rest |-> rest]
           r == ContainsVoice(chunk)
       IN gate' = [kind |-> "gate", chunk |-> chunk, out |-> r,
                   total_frames |-> gate.total_frames + r.frame_count,
                   voiced_frames |-> gate.voiced_frames + r.voiced_count]
    /\ UNCHANGED <<starts, conn, client, inserted, streaming, session, lifecycle, capture,
                   injector, locals, response>>

NextGate == \E frames \in FrameLists, rest \in Rests : ContainsVoiceCall(frames, rest)

\* The voice gate alone, called on one chunk after another.
SpecGate == Init /\ [][NextGate]_vars

\* ------------------------------------------------- the streaming pipeline
\* One AudioCapture whose chunk callback and waveform callback are set.  The
\* buffer is its length in samples.  The threads that touch it: the caller of
\* start() and stop(), the sounddevice callback, and the thread each start()
\* creates for _process_audio.  "with self.lock" is entered when the lock is
\* free and left at the end of its block; lock is the thread in such a
\* block, 0 when there is none.  Beside the fields of the engine
\* the record keeps what the session has captured, sliced and forwarded.

\* The threads start() may create, one per call.
Threads == 1..MaxSessions

\* Samples one run of stream callbacks appends: one block of frame_samples,
\* the fewest blocks that hold a chunk, and the fewest that hold whole chunks only.
StreamRuns == {FrameSamples, 67 * FrameSamples, 200 * FrameSamples}

NoChunk == [n |-> 0, session |-> 0]

\* The thread has been started and has not left _process_audio.
Alive(th) == streaming.task[th] \notin {None, "done"}

\* start(): the fields are reset under the lock, the stream is opened, and
\* because chunk_callback is set a new processing thread is started and
\* kept in capture_thread.
StartCapture ==
    /\ ~streaming.recording
    /\ streaming.lock = 0
    /\ streaming.session < MaxSessions
    /\ streaming' = [streaming EXCEPT !.recording = TRUE, !.audio_buffer = 0, !.total_chunks = 0,
                                      !.stream = TRUE,
                                      !.session = @ + 1,
                                      !.capture_thread = streaming.session + 1,
                                      !.task[streaming.session + 1] = "while",
                                      !.stop = "idle", !.joined = FALSE, !.remaining = 0,
                                      !.captured = 0, !.sliced = 0, !.forwarded = 0]
    /\ UNCHANGED <<starts, conn, client, inserted, gate, session, lifecycle, capture, injector,
                   locals, response>>

\* The first start() after construction.
StreamingStart ==
    /\ streaming.session = 0
    /\ StartCapture

\* start() once more, after stop() has returned.
StreamingRestart ==
    /\ streaming.session > 0
    /\ streaming.stop = "returned"
    /\ StartCapture

\* _audio_callback up to the lock: it returns at once when not recording.
StreamingCallbackEnter ==
    /\ streaming.stream
    /\ streaming.callback = "idle"
    /\ streaming.delivered < MaxStreamed
    /\ streaming' = [streaming EXCEPT !.delivered = @ + 1,
                                      !.callback = IF streaming.recording THEN "extend" ELSE "idle"]
    /\ UNCHANGED <<starts, conn, client, inserted, gate, session, lifecycle, capture, injector,
                   locals, response>>

\* "with self.lock: self.audio_buffer.extend(audio_data)"
StreamingCallbackExtend(n) ==
    /\ streaming.callback = "extend"
    /\ streaming.lock = 0
    /\ streaming' = [streaming EXCEPT !.audio_buffer = @ + n, !.captured = @ + n,
                                      !.callback = "waveform"]
    /\ UNCHANGED <<starts, conn, client, inserted, gate, session, lifecycle, capture, injector,
                   locals, response>>

\* "try: self.waveform_callback(audio_data) except Exception": whether the
\* callback returns or raises, _audio_callback returns.
StreamingCallbackWaveform(raised) ==
    /\ streaming.callback = "waveform"
    /\ streaming' = [streaming EXCEPT !.waveform_raised = raised, !.callback = "idle"]
    /\ UNCHANGED <<starts, conn, client, inserted, gate, session, lifecycle, capture, injector,
                   locals, response>>

\* "while self.recording or len(self.audio_buffer) > 0": the first operand.
ProcessAudioRecording(th) ==
    /\ streaming.task[th] = "while"
    /\ streaming' = [streaming EXCEPT !.task[th] =
                        IF streaming.recording THEN "lock" ELSE "while_len"]
    /\ UNCHANGED <<starts, conn, client, inserted, gate, session, lifecycle, capture, injector,
                   locals, response>>

\* The second operand, read when the first was false.
ProcessAudioBufferLen(th) ==
    /\ streaming.task[th] = "while_len"
    /\ streaming' = [streaming EXCEPT !.task[th] =
                        IF streaming.audio_buffer > 0 THEN "lock" ELSE "done"]
    /\ UNCHANGED <<starts, conn, client, inserted, gate, session, lifecycle, capture, injector,
                   locals, response>>

\* "with self.lock:" is entered.
ProcessAudioLock(th) ==
    /\ streaming.task[th] = "lock"
    /\ streaming.lock = 0
    /\ streaming' = [streaming EXCEPT !.lock = th, !.task[th] = "check"]
    /\ UNCHANGED <<starts, conn, client, inserted, gate, session, lifecycle, capture, injector,
                   locals, response>>

\* Under the lock: too little audio goes to the sleep, otherwise one chunk
\* is sliced off the front and the block is left.
ProcessAudioCheck(th) ==
    /\ streaming.task[th] = "check"
    /\ streaming' = IF streaming.audio_buffer < chunk_samples
                    THEN [streaming EXCEPT !.task[th] = "sleep"]
                    ELSE [streaming EXCEPT !.audio_buffer = @ - chunk_samples,
                                           !.sliced = @ + chunk_samples,
                                           !.chunk[th] = [n |-> (streaming.sliced \div chunk_samples) + 1,
                                                          session |-> streaming.session],
                                           !.lock = 0, !.task[th] = "gate"]
    /\ UNCHANGED <<starts, conn, client, inserted, gate, session, lifecycle, capture, injector,
                   locals, response>>

\* "time.sleep(0.1); continue": the sleep is over and the continue leaves the block.
ProcessAudioSleep(th) ==
    /\ streaming.task[th] = "sleep"
    /\ streaming' = [streaming EXCEPT !.lock = 0, !.task[th] = "while"]
    /\ UNCHANGED <<starts, conn, client, inserted, gate, session, lifecycle, capture, injector,
                   locals, response>>

\* "if self._contains_voice(chunk, frame_samples)": a chunk without voice is dropped.
ProcessAudioGate(th, voiced) ==
    /\ streaming.task[th] = "gate"
    /\ streaming' = IF voiced
                    THEN [streaming EXCEPT !.task[th] = "callback"]
                    ELSE [streaming EXCEPT !.task[th] = "while", !.chunk[th] = NoChunk]
    /\ UNCHANGED <<starts, conn, client, inserted, gate, session, lifecycle, capture, injector,
                   locals, response>>

\* The chunk callback raised and the exception ends the thread.
ProcessAudioEmitFaulty(th, raised) ==
    /\ streaming.task[th] = "callback"
    /\ streaming' = [streaming EXCEPT !.task[th] = IF raised THEN "done" ELSE "while",
                                      !.chunk[th] = NoChunk,
                                      !.forwarded = streaming.chunk[th].n,
                                      !.chunk_raised = raised,
                                      !.total_chunks = IF raised THEN @ ELSE @ + 1]
    /\ UNCHANGED <<starts, conn, client, inserted, gate, session, lifecycle, capture, injector,
                   locals, response>>

\* "try: self.chunk_callback(chunk_array, timestamp); self.total_chunks += 1
\* except Exception": the chunk is counted when the callback returns, and
\* the loop goes on either way.
ProcessAudioEmit(th, raised) ==
    /\ streaming.task[th] = "callback"
    /\ streaming' = [streaming EXCEPT !.task[th] = "while",
                                      !.chunk[th] = NoChunk,
                                      !.forwarded = streaming.chunk[th].n,
                                      !.chunk_raised = raised,
                                      !.total_chunks = IF raised THEN @ ELSE @ + 1]
    /\ UNCHANGED <<starts, conn, client, inserted, gate, session, lifecycle, capture, injector,
                   locals, response>>

\* stop(): "with self.lock: self.recording = False"
StreamingStopRecording ==
    /\ streaming.stop = "idle"
    /\ streaming.recording
    /\ streaming.lock = 0
    /\ streaming' = [streaming EXCEPT !.recording = FALSE, !.stop = "stream"]
    /\ UNCHANGED <<starts, conn, client, inserted, gate, session, lifecycle, capture, injector,
                   locals, response>>

\* The stream is stopped and closed; stopping waits for a callback in progress.
StreamingStopStream ==
    /\ streaming.stop = "stream"
    /\ streaming.callback = "idle"
    /\ streaming' = [streaming EXCEPT !.stream = FALSE, !.stop = "join"]
    /\ UNCHANGED <<starts, conn, client, inserted, gate, session, lifecycle, capture, injector,
                   locals, response>>

\* "self.capture_thread.join(timeout=2.0)" returns when the thread has
\* ended or when the two seconds are over, whichever comes first.
StreamingStopJoin ==
    /\ streaming.stop = "join"
    /\ streaming' = [streaming EXCEPT !.joined = (streaming.task[streaming.capture_thread] = "done"),
                                      !.stop = "remaining"]
    /\ UNCHANGED <<starts, conn, client, inserted, gate, session, lifecycle, capture, injector,
                   locals, response>>

\* The remaining audio is read, without the lock, and returned.
StreamingStopReturn ==
    /\ streaming.stop = "remaining"
    /\ streaming' = [streaming EXCEPT !.remaining = streaming.audio_buffer, !.stop = "returned"]
    /\ UNCHANGED <<starts, conn, client, inserted, gate, session, lifecycle, capture, injector,
                   locals, response>>

ProcessAudio(th) ==
    \/ ProcessAudioRecording(th)
    \/ ProcessAudioBufferLen(th)
    \/ ProcessAudioLock(th)
    \/ ProcessAudioCheck(th)
    \/ ProcessAudioSleep(th)
    \/ \E voiced \in BOOLEAN : ProcessAudioGate(th, voiced)
    \/ \E raised \in BOOLEAN : ProcessAudioEmit(th, raised)

StreamingStop ==
    \/ StreamingStopRecording
    \/ StreamingStopStream
    \/ StreamingStopJoin
    \/ StreamingStopReturn

StreamingCallback ==
    \/ StreamingCallbackEnter
    \/ \E n \in StreamRuns : StreamingCallbackExtend(n)
    \/ \E raised \in BOOLEAN : StreamingCallbackWaveform(raised)

NextStreaming ==
    \/ StreamingStart
    \/ StreamingCallback
    \/ \E th \in Threads : ProcessAudio(th)
    \/ StreamingStop

\* Every thread that can run keeps running, and a thread that waits for the
\* lock gets it when it is free again and again.
FairStreaming ==
    /\ \A th \in Threads : WF_vars(ProcessAudio(th)) /\ SF_vars(ProcessAudioLock(th))
    /\ WF_vars(StreamingCallback)
    /\ SF_vars(\E n \in StreamRuns : StreamingCallbackExtend(n))
    /\ WF_vars(StreamingStop)
    /\ SF_vars(StreamingStopRecording)

\* The engine in streaming mode over one session, its threads scheduled fairly.
SpecStreaming == Init /\ [][NextStreaming]_vars /\ FairStreaming

NextSessions ==
    \/ NextStreaming
    \/ StreamingRestart

\* The engine in streaming mode, started and stopped again and again.
SpecSessions == Init /\ [][NextSessions]_vars

\* ------------------------------------------------------------ properties
\* Event e is among the collaborator calls tr.
Has(tr, e) == \E i \in 1..Len(tr) : tr[i] = e

\* Task t takes the step.
Moves(t) == pc'[t] # pc[t]

\* transcribe_full_audio was called in the handler run with calls tr.
Invoked(tr) == Has(tr, "transcribe") \/ Has(tr, "transcribe_raised")

\* insert_text was called in the handler run with calls tr.
Inserted(tr) == Has(tr, "insert") \/ Has(tr, "insert_raised")

\* C1: a start command that finds the state other than Idle returns a
\* failure and has no side effect: the session fields, the capture engine,
\* the injector and the lifecycle fields are as before, the transcriber's
\* accumulator is not reset, the engine is not armed and no show signal is
\* emitted; this holds in every interleaving with other handlers.
C1_RejectedStartHasNoEffect ==
    [][\A t \in Tasks :
          /\ (pc[t] = "s_check" /\ Moves(t) /\ state # IDLE) =>
                /\ pc'[t] = "s_reject"
                /\ trace'[t] = <<>>
                /\ UNCHANGED shared
          /\ (pc[t] = "s_reject" /\ Moves(t)) =>
                /\ response'.kind = "start"
                /\ ~response'.success
                /\ response'.trace = <<>>
                /\ UNCHANGED shared]_vars

\* Two start commands were sent with no stop between them: the first was
\* accepted, the second is being answered "already recording".
C1_SecondStartRejected ==
    /\ response.kind = "start"
    /\ ~response.success
    /\ response.message = "Cannot start: already"
    /\ response.named = RECORDING
    /\ starts = 2
    /\ sessions_count = 1
    /\ recording

\* C2: of two start handlers running concurrently while the state is Idle
\* exactly one succeeds: no two of them are on their way to a success
\* response together, and the engine is armed once (one stream is open).
C2_OneConcurrentStartWins ==
    /\ \A t, u \in Tasks :
          t # u => ~(cmd[t] = "start" /\ cmd[u] = "start"
                     /\ pc[t] \notin {"s_check", "s_reject", "s_exc"}
                     /\ pc[u] \notin {"s_check", "s_reject", "s_exc"})
    /\ open_streams <= 1

\* C3: a stop command that finds the state other than Recording returns a
\* failure and has no side effect: nothing is drained, transcribed or
\* inserted, no hide signal is emitted and every shared field is as before.
C3_RejectedStopHasNoEffect ==
    [][\A t \in Tasks :
          (pc[t] = "p_check" /\ Moves(t) /\ state # RECORDING) =>
              /\ pc'[t] = "idle"
              /\ response'.kind = "stop"
              /\ ~response'.success
              /\ response'.trace = <<>>
              /\ UNCHANGED shared]_vars

\* A stop is being rejected while another stop is processing its session.
C3_StopRejectedWhileProcessing ==
    /\ response.kind = "stop"
    /\ ~response.success
    /\ response.message = "No recording in progress"
    /\ state = PROCESSING

\* C4: for commands sent one after the other, the state seen once a handler
\* has returned is never Processing; a rejected command leaves the state as
\* it was; an accepted stop, whether it succeeds or fails, has set the state
\* to Idle when its response is produced.
C4_NeverProcessingAfterReturn ==
    /\ [](/\ Quiescent => state # PROCESSING
          /\ (response.kind = "stop" /\ Has(response.trace, "hide")) => state = IDLE
          /\ (response.kind = "gui_stop" /\ Has(response.trace, "hide")) => state = IDLE)
    /\ [][\A t \in Tasks :
             (/\ Moves(t)
              /\ response'.kind \in {"start", "stop"}
              /\ ~response'.success
              /\ response'.message \in {"Cannot start: already", "No recording in progress"})
             => state' = state]_vars

\* An accepted stop has failed (the drain or the transcription raised) and
\* its failure response is produced with the state back at Idle.
C4_FailedStopBackToIdle ==
    /\ response.kind = "stop"
    /\ ~response.success
    /\ response.message = "Failed to stop recording"
    /\ Has(response.trace, "hide")
    /\ state = IDLE
    /\ Quiescent

\* C5: the state only moves Idle -> Recording, Recording -> Processing and
\* Processing -> Idle, also when handlers run concurrently.
C5_OnlyCyclicTransitions ==
    [][state' # state =>
          <<state, state'>> \in {<<IDLE, RECORDING>>, <<RECORDING, PROCESSING>>,
                                 <<PROCESSING, IDLE>>}]_vars

\* C6: at most one call of transcribe_full_audio is in progress at any time.
C6_OneTranscriptionInProgress ==
    Cardinality({t \in Tasks : pc[t] = "p_tr_end"}) <= 1

C8_FailedTranscriptionReportsEmpty ==
    (/\ response.kind = "stop"
     /\ Has(response.trace, "transcribe_failed") \/ Has(response.trace, "transcribe_raised"))
    => /\ response.success
       /\ response.transcription = <<>>
       /\ response.word_count = 0
       /\ state = IDLE

\* C9: when insert_text raises for a non-empty transcript the stop still
\* succeeds, carrying the text with method Clipboard and the state Idle;
\* insert_text is called exactly when the transcript is non-empty after
\* stripping.
C9_InsertionFailureFallsBack ==
    /\ (response.kind = "stop" /\ Has(response.trace, "insert_raised")) =>
          /\ response.success
          /\ response.transcription # <<>>
          /\ response.word_count = WordCount(response.transcription)
          /\ response.insertion_method = CLIPBOARD
          /\ state = IDLE
    /\ \A t \in Tasks :
          pc[t] \in {"p_idle", "p_ret"} =>
              (Inserted(trace[t]) <=> Strip(transcription[t]) # <<>>)

\* insert_text raised for the transcript "w w" and the stop is answered
\* with the text, two words and method Clipboard.
C9_RaisedInsertionAnswered ==
    /\ response.kind = "stop"
    /\ response.success
    /\ Has(response.trace, "insert_raised")
    /\ response.word_count = 2
    /\ response.insertion_method = CLIPBOARD

\* C10: a status command is answered with success in every state and no
\* step of its handler changes a shared field: the session fields, the
\* capture engine's flag and buffer, the injector's last method used.
C10_StatusChangesNothing ==
    [][\A t \in Tasks :
          (cmd[t] = "status" /\ Moves(t)) =>
              /\ UNCHANGED shared
              /\ pc'[t] = "idle" => (response'.kind = "status" /\ response'.success)]_vars

\* A status command is answered while a stop is processing, after an
\* insertion has been made and with audio in the capture buffer.
C10_StatusWhileProcessing ==
    /\ response.kind = "status"
    /\ response.success
    /\ response.state = PROCESSING
    /\ audio_buffer # <<>>
    /\ last_method_used # None

StopOutcome(r) ==
    /\ r.success =>
          /\ r.message = "Recording stopped"
          /\ Head(r.trace) = "hide" /\ Has(r.trace, "drain")
          /\ state = IDLE /\ ~recording
          /\ Invoked(r.trace) <=> NumSamples(audio_buffer) > MinTranscribeSamples
          /\ Inserted(r.trace) <=> ShouldInsert(r.transcription)
    /\ ~r.success =>
          \/ r.message = "No recording in progress" /\ r.trace = <<>>
          \/ r.message = "Failed to stop recording" /\ Head(r.trace) = "hide" /\ state = IDLE

\* C13: the window's stop request runs the stop command's handler: what it
\* returns to the slot and the calls it made are those of a stop command
\* (the same outcome predicate holds of both), one more hide signal follows
\* iff the stop returned success, and when the state is not Recording the
\* request changes no field and emits no hide signal.
C13_GuiStopIsStopThenHide ==
    /\ [](/\ response.kind = "stop" => StopOutcome(response)
          /\ response.kind = "gui_stop" =>
                /\ StopOutcome(response.stop)
                /\ response.trace = IF response.stop.success
                                    THEN Append(response.stop.trace, "hide")
                                    ELSE response.stop.trace
                /\ ~response.stop.success /\ response.stop.trace = <<>> => response.trace = <<>>)
    /\ [][\A t \in Tasks : (cmd[t] = "gui_stop" /\ Moves(t)) =>
             /\ (pc[t] = "p_check" /\ state # RECORDING) =>
                   /\ UNCHANGED shared
                   /\ pc'[t] = "g_hide" /\ trace'[t] = <<>>
                   /\ ~result'[t].success
             /\ pc[t] = "g_hide" =>
                   /\ UNCHANGED shared
                   /\ response'.stop = result[t]]_vars

\* A window stop request in Recording went through transcription and
\* insertion and was followed by the second hide signal.
C13_GuiStopSucceededAndHid ==
    /\ response.kind = "gui_stop" /\ response.success
    /\ Has(response.stop.trace, "insert")
    /\ response.trace[Len(response.trace)] = "hide"
    /\ Len(response.trace) = Len(response.stop.trace) + 1
    /\ state = IDLE

\* C14: without a chunk sink the buffer changes only when a callback appends
\* its block at the end while the engine records, or when start empties it;
\* stop returns the buffer as it is and leaves it alone.  So stop returns the
\* blocks delivered since the start in arrival order, none lost, duplicated
\* or reordered, and a session's buffer begins empty.
C14_DrainReturnsDeliveredInOrder ==
    [][/\ audio_buffer' # audio_buffer =>
             \/ /\ recording /\ open_streams > 0
                /\ \E n \in FrameCounts : audio_buffer' = Append(audio_buffer, n)
                /\ UNCHANGED pc
             \/ /\ audio_buffer' = <<>>
                /\ \E t \in Tasks : pc[t] = "ac_start_init" /\ Moves(t)
       /\ \A t \in Tasks :
             /\ (pc[t] = "ac_start_init" /\ Moves(t)) => audio_buffer' = <<>>
             /\ (pc[t] = "ac_stop_read" /\ Moves(t)) =>
                   /\ all_audio'[t] = audio_buffer
                   /\ audio_buffer' = audio_buffer]_vars

\* The stop of the second session has returned two different blocks in the
\* order they arrived.
C14_SecondSessionDrained ==
    \E t \in Tasks :
        /\ cmd[t] = "stop" /\ sessions_count = 2
        /\ all_audio[t] = <<8001, 8000>>
        /\ all_audio[t] = audio_buffer
        /\ trace[t][Len(trace[t])] = "drain"

\* C15: once the engine's stop has returned (the stop command was answered
\* with success), the engine is not recording and its status reports a
\* buffered sample count of 0.
C15_StopClearsEngine ==
    (response.kind = "stop" /\ response.success) =>
        /\ ~CaptureStatus.recording
        /\ CaptureStatus.buffer_size = 0

\* C16: when the stream fails to open, the engine's start raises with the
\* engine not recording; the start command returns a failure with the state
\* Idle, sessions_count as it was and neither the engine armed nor a show
\* signal emitted, so that the next start command is let through.
C16_FailedOpenFailsStart ==
    /\ [](/\ \A t \in Tasks :
                /\ pc[t] \in {"ac_start_check", "ac_start_init", "ac_start_open"} =>
                      state = IDLE /\ trace[t] = <<"reset">>
                /\ pc[t] = "s_exc" => state = IDLE /\ ~recording /\ trace[t] = <<"reset">>
          /\ (response.kind = "start" /\ response.message = "Failed to start recording") =>
                /\ ~response.success
                /\ state = IDLE /\ ~recording
                /\ response.trace = <<"reset">>)
    /\ [][\A t \in Tasks : Moves(t) =>
             /\ pc'[t] = "s_exc" => pc[t] = "ac_start_open" /\ ~recording'
             /\ (pc[t] \in {"s_check", "ac_start_check", "ac_start_init", "s_exc"}
                   \/ pc'[t] = "s_exc") => UNCHANGED <<session, stream, open_streams>>
             /\ pc[t] = "s_exc" => response'.message = "Failed to start recording"]_vars

\* The first start command failed to open the stream and the second one has
\* been answered with success, as session 1.
C16_StartSucceedsAfterFailedOpen ==
    /\ response.kind = "start" /\ response.success
    /\ starts = 2 /\ sessions_count = 1 /\ response.session_id = 1
    /\ timers = 0
    /\ recording /\ open_streams = 1

\* C17: every connection that delivered a non-empty payload has exactly one
\* response written to it when it is closed.
C17_OneResponsePerRequest ==
    \A t \in Tasks :
        (conn[t].closed /\ conn[t].payload \in Payloads \ {"empty"}) =>
            Len(conn[t].written) = 1

C19_HandlerFailureConfined ==
    /\ [](/\ ipc_running
          /\ \A t \in Tasks :
                /\ (conn[t].invoked /\ pc[t] \notin {"h_call"}) =>
                      \/ conn[t].reply.status = "success"
                      \/ /\ conn[t].reply.status = "error"
                         /\ \E e \in HandlerErrors : conn[t].reply.message = <<e>>
                /\ (conn[t].invoked /\ conn[t].closed) => conn[t].written = <<conn[t].reply>>
                /\ (conn[t].payload = "known" /\ pc[t] = "h_send") => conn[t].invoked)
    /\ [][\A t \in Tasks : Moves(t) =>
             /\ \A u \in Tasks \ {t} : conn'[u] = conn[u] /\ pc'[u] = pc[u]
             /\ UNCHANGED <<session, lifecycle, capture, injector>>
             /\ pc[t] = "h_call" => pc'[t] = "h_send"]_vars

\* A handler raised on one connection, which was answered with the error
\* and closed; a connection accepted after it was answered with success.
C19_ServedAfterHandlerRaised ==
    \E t, u \in Tasks :
        /\ conn[t].invoked /\ conn[t].closed
        /\ conn[t].written = <<[status |-> "error", message |-> <<"boom">>, result |-> None]>>
        /\ conn[u].seq > conn[t].seq /\ conn[u].closed
        /\ Len(conn[u].written) = 1 /\ conn[u].written[1].status = "success"

\* C20: send_command returns an error dict for every transport failure; an
\* unreachable endpoint (no socket file, or a socket file nobody listens on)
\* is reported with the daemon-not-running message and a timeout with the
\* timed-out message, neither of which is a communication-error message.
C20_UnreachableAndTimeoutHaveOwnMessages ==
    /\ client.cause \in {"absent", "stale", "timeout", "closed", "reset"} =>
          client.result.status = "error"
    /\ client.cause \in {"absent", "stale"} => client.result.message = NotRunningMessage
    /\ client.cause = "timeout" => client.result.message = TimedOutMessage

\* The order of candidates the preference pref fixes.
Candidates(pref) ==
    CASE pref = "auto" -> <<AUTO_PASTE, DIRECT, CLIPBOARD>>
      [] pref = "direct" -> <<DIRECT, AUTO_PASTE, CLIPBOARD>>
      [] pref = "auto_paste" -> <<AUTO_PASTE, CLIPBOARD>>
      [] pref = "clipboard" -> <<CLIPBOARD>>

\* C21: insert_text of a non-empty text attempts a prefix of the candidate
\* list of the configured preference, in the list's order and each candidate
\* once; every attempt but the last failed; when a method is returned it is
\* the last one attempted, it succeeded, and it is the last method used.
C21_FirstSuccessInPreferenceOrder ==
    (inserted.kind = "insert" /\ inserted.text # <<>>) =>
        LET r == inserted.out
            n == Len(r.tried)
            ms == Candidates(preferred_method)
        IN /\ n >= 1 /\ n <= Len(ms)
           /\ \A i \in 1..n : r.tried[i].method = ms[i]
           /\ \A i \in 1..(n - 1) : ~r.tried[i].ok
           /\ \A i, j \in 1..n : r.tried[i].method = r.tried[j].method => i = j
           /\ ~r.raised => /\ r.tried[n].ok
                           /\ r.method = ms[n]
                           /\ last_method_used = r.method
           /\ r.raised => n = Len(ms) /\ ~r.tried[n].ok

\* Under the preference "direct" typing failed and the paste that followed
\* succeeded: AutoPaste was returned and Clipboard was not attempted.
C21_SecondCandidateWon ==
    /\ preferred_method = "direct"
    /\ inserted.kind = "insert" /\ ~inserted.out.raised
    /\ inserted.out.method = AUTO_PASTE
    /\ Len(inserted.out.tried) = 2
    /\ inserted.out.tried[1].method = DIRECT /\ inserted.out.tried[1].ran
    /\ last_method_used = AUTO_PASTE

\* A non-empty text was inserted under the preference "auto" by an injector
\* that found no ydotool at construction.
AutoWithoutHelper ==
    /\ inserted.kind = "insert" /\ inserted.text # <<>>
    /\ preferred_method = "auto" /\ ~ydotool_available

C23_ChainNeverExhausted ==
    (inserted.kind = "insert" /\ inserted.text # <<>>) =>
        /\ Candidates(preferred_method)[Len(Candidates(preferred_method))] = CLIPBOARD
        /\ ~inserted.out.raised
        /\ inserted.out.method \in InsertionMethod

\* C24: when every candidate failed, insert_text raises one error that
\* carries the failure of the last candidate attempted, never an absent
\* cause, and the last method used is as before the call.
C24_ExhaustedChainReportsLastFailure ==
    (inserted.kind = "insert" /\ inserted.out.raised) =>
        LET r == inserted.out
        IN /\ Len(r.tried) = Len(Candidates(preferred_method))
           /\ \A i \in 1..Len(r.tried) : ~r.tried[i].ok
           /\ last_method_used = inserted.last
           /\ r.error[2] # None
           /\ r.error[2] = r.tried[Len(r.tried)].failure

\* C25: the gate accepts a chunk iff its voiced frames are at least 15 % of
\* its classified frames, both counted over the frames of this chunk alone:
\* 3 of 20 is accepted, anything below is rejected, and the counters kept
\* across chunks take no part.
C25_GateThresholdOnOwnFrames ==
    gate.kind = "gate" =>
        LET r == gate.out
            own == {j \in 1..r.offered : gate.chunk.frames[j] # "error"}
            voiced == {j \in own : gate.chunk.frames[j] = "voiced"}
        IN /\ r.frame_count = Cardinality(own)
           /\ r.voiced_count = Cardinality(voiced)
           /\ r.accepted <=> (Cardinality(own) > 0
                              /\ 20 * Cardinality(voiced) >= 3 * Cardinality(own))

\* A chunk with 3 voiced of 20 classified frames was accepted while the
\* counters kept across chunks held the frames of an earlier chunk as well.
C25_ExactRatioAccepted ==
    /\ gate.kind = "gate"
    /\ gate.out.voiced_count = 3 /\ gate.out.frame_count = 20
    /\ gate.out.accepted
    /\ gate.total_frames > 20

\* C26: a chunk of n samples has floor(n / f) frames offered to the
\* classifier, and no frame is offered only when the chunk is shorter than
\* one frame.
C26_EveryFullFrameOffered ==
    gate.kind = "gate" =>
        /\ gate.out.offered = ChunkSamples(gate.chunk) \div FrameSamples
        /\ gate.out.offered = 0 <=> ChunkSamples(gate.chunk) < FrameSamples

\* C27: a frame on which the classifier fails stays in the denominator: with
\* v voiced frames among the n frames offered, failing ones included, the
\* chunk is accepted iff v / n >= 0.15.
C27_FailedFramesCountAsSilent ==
    gate.kind = "gate" =>
        (gate.out.accepted <=> (gate.out.offered > 0
                                /\ 20 * gate.out.voiced_count >= 3 * gate.out.offered))

\* The failure r carries the name of state s.
NamesState(r, s) == "named" \in DOMAIN r /\ r.named = s

\* C28: the failure returned for a start or a stop rejected because of the
\* session state contains the name of that state.
C28_RejectionNamesState ==
    /\ (response.kind = "start" /\ response.message = "Cannot start: already") =>
          NamesState(response, state)
    /\ (response.kind = "stop" /\ response.message = "No recording in progress") =>
          NamesState(response, state)

\* C29: sessions_count never decreases, changes only in a step of a start
\* handler, and the increment of every start that gets as far as counting
\* raises it by exactly 1, also when starts are handled concurrently.
C29_CountsEachSuccessfulStart ==
    [][/\ sessions_count' >= sessions_count
       /\ sessions_count' # sessions_count =>
             \E t \in Tasks : cmd[t] = "start" /\ pc[t] = "s_count_write" /\ Moves(t)
       /\ \A t \in Tasks : (pc[t] = "s_count_write" /\ Moves(t)) =>
             sessions_count' = sessions_count + 1]_vars

\* Stop has been called on the streaming engine and less than one chunk is buffered.
StoppedBelowOneChunk ==
    /\ streaming.stop # "idle"
    /\ streaming.audio_buffer < chunk_samples

\* C30 (streaming task ends after stop): once stop has been called and fewer
\* samples than one chunk are buffered, the processing thread eventually
\* ends, whether the remainder is empty or not.
C30_StreamingTaskTerminates ==
    StoppedBelowOneChunk ~>
        (\E th \in Threads : th = streaming.capture_thread /\ streaming.task[th] = "done")

\* C31 (one streaming task): at most one processing thread is alive at any
\* time, and a chunk a thread has sliced off was buffered in the session
\* that started the thread.
C31_OneStreamingTaskPerSession ==
    /\ Cardinality({th \in Threads : Alive(th)}) <= 1
    /\ \A th \in Threads :
          streaming.chunk[th] # NoChunk => streaming.chunk[th].session = th

\* C32 (chunks partition the captured samples): every sample the callbacks
\* appended is in exactly one sliced chunk or in what is still buffered, and
\* once stop has returned, in exactly one sliced chunk or in the remainder
\* it returned; a chunk with voice reaches the chunk callback in the order
\* of slicing, and a chunk without voice reaches nobody.
C32_EverySampleInOneChunkOrRemainder ==
    /\ [](/\ streaming.captured = streaming.sliced + streaming.audio_buffer
          /\ streaming.stop = "returned" =>
                streaming.captured = streaming.sliced + streaming.remaining)
    /\ [][\A th \in Threads :
            /\ (streaming.task[th] = "gate" /\ streaming'.task[th] = "while") =>
                  streaming'.forwarded = streaming.forwarded
            /\ (streaming.task[th] = "callback" /\ streaming'.task[th] # "callback") =>
                  /\ streaming'.forwarded = streaming.chunk[th].n
                  /\ streaming'.forwarded > streaming.forwarded]_vars

\* C33 (the task does not sleep on the lock): a processing thread that
\* sleeps for more samples does not hold the buffer lock, so a callback that
\* is about to append while a thread sleeps finds the lock free.
C33_NoSleepUnderLock ==
    \A th \in Threads :
        streaming.task[th] = "sleep" =>
            /\ streaming.lock # th
            /\ streaming.callback = "extend" => streaming.lock = 0

\* C34 (sink failures do not stop capture): when the waveform callback
\* raises, _audio_callback returns, the buffer already holds the samples of
\* that call and keeps them, and the engine keeps recording as before; when
\* the chunk callback raises, the processing thread returns to its loop and
\* the engine keeps recording as before.
C34_SinkFailuresContained ==
    [][/\ (/\ streaming.callback = "waveform"
           /\ streaming'.callback # "waveform"
           /\ streaming'.waveform_raised) =>
              /\ streaming'.callback = "idle"
              /\ streaming'.audio_buffer = streaming.audio_buffer
              /\ streaming'.captured = streaming.captured
              /\ streaming'.recording = streaming.recording
              /\ streaming'.stream = streaming.stream
       /\ \A th \in Threads :
              (/\ streaming.task[th] = "callback"
               /\ streaming'.task[th] # "callback"
               /\ streaming'.chunk_raised) =>
                  /\ streaming'.task[th] = "while"
                  /\ streaming'.recording = streaming.recording
                  /\ streaming'.stream = streaming.stream
                  /\ streaming'.audio_buffer = streaming.audio_buffer]_vars

\* Both callbacks have raised on their last call, the engine is still
\* recording, and the thread has the next chunk at the gate.
C34_NextChunkAfterSinkFailure ==
    /\ streaming.recording /\ streaming.stream
    /\ streaming.waveform_raised /\ streaming.chunk_raised
    /\ streaming.callback = "idle"
    /\ \E th \in Threads : streaming.task[th] = "gate" /\ streaming.chunk[th].n >= 2

\* Place of a collaborator call in the order of an accepted stop.
Rank(e) ==
    CASE e = "hide" -> 1
      [] e = "drain" -> 2
      [] e \in {"transcribe", "transcribe_failed", "transcribe_raised"} -> 3
      [] e \in {"insert", "insert_raised"} -> 4
      [] OTHER -> 0

\* The calls tr are in the order of their ranks, none of them twice (a
\* transcription that failed leaves two entries, the call and its failure).
Ranked(tr) ==
    \A i, j \in 1..Len(tr) : i < j => Rank(tr[i]) <= Rank(tr[j]) /\ tr[i] # tr[j]

\* Number of occurrences of e among the calls tr.
Count(tr, e) == Cardinality({i \in 1..Len(tr) : tr[i] = e})

\* Task t makes the call e in this step.
Calls(t, e) == trace'[t] = Append(trace[t], e)

\* C35 (order of events): an accepted stop emits the hide signal first, then
\* sets Processing, drains the engine, transcribes and inserts while the
\* state is Processing, sets Idle and only then responds; a successful start
\* emits the show signal exactly once, after the engine was armed and with
\* the state already Recording.
C35_EventsInOrder ==
    /\ [](/\ (response.kind = "stop" /\ response.success) =>
                /\ Ranked(response.trace)
                /\ Len(response.trace) >= 2
                /\ response.trace[1] = "hide" /\ response.trace[2] = "drain"
                /\ state = IDLE
          /\ (response.kind = "start" /\ response.success) =>
                /\ Count(response.trace, "show") = 1
                /\ response.trace[Len(response.trace)] = "show"
                /\ Has(response.trace, "arm"))
    /\ [][\A t \in Tasks :
            /\ (Moves(t) /\ state # PROCESSING /\ state' = PROCESSING) =>
                  trace[t] = <<"hide">>
            /\ (Calls(t, "hide") /\ pc[t] = "p_check") =>
                  trace[t] = <<>> /\ state = RECORDING
            /\ (\E e \in {"drain", "transcribe", "transcribe_failed", "insert", "insert_raised"} :
                    Calls(t, e)) =>
                  state = PROCESSING /\ state' = PROCESSING
            /\ (Moves(t) /\ pc[t] = "p_idle") =>
                  Has(trace[t], "drain") /\ state = PROCESSING /\ state' = IDLE
            /\ Calls(t, "show") =>
                  /\ Has(trace[t], "arm")
                  /\ state = RECORDING /\ recording /\ stream]_vars

\* An accepted stop has answered after hiding the window, draining the
\* engine, transcribing and inserting, in this order.
C35_FullStopAnswered ==
    /\ response.kind = "stop" /\ response.success
    /\ response.trace = <<"hide", "drain", "transcribe", "insert">>

\* C36 (engine follows the session state): with no handler and no stop
\* request of the window running, Idle means the engine is not recording and
\* has no open stream, and Recording means the engine is recording.
C36_EngineFollowsState ==
    Quiescent =>
        /\ state = IDLE => (~recording /\ ~stream /\ open_streams = 0)
        /\ state = RECORDING => recording

\* C37 (consistent status snapshot): in every status response the field
\* recording is true exactly when the field state is Recording.
C37_StatusSnapshotConsistent ==
    response.kind = "status" => (response.recording <=> response.state = RECORDING)

\* C38 (the clipboard holds what was inserted): when insert_text returns a
\* method for a non-empty text, the clipboard holds that text; for the empty
\* text it returns Clipboard, attempts nothing and leaves the clipboard and
\* the last method used as they were.
C38_ClipboardHoldsInsertedText ==
    inserted.kind = "insert" =>
        IF inserted.text = <<>>
        THEN /\ ~inserted.out.raised
             /\ inserted.out.method = CLIPBOARD
             /\ inserted.out.tried = <<>>
             /\ clipboard = inserted.clipboard
             /\ last_method_used = inserted.last
        ELSE ~inserted.out.raised =>
                /\ inserted.out.method \in InsertionMethod
                /\ clipboard = inserted.text

\* A non-empty text was typed directly and replaced what the clipboard held.
C38_TypedTextAlsoOnClipboard ==
    /\ inserted.kind = "insert" /\ inserted.text # <<>>
    /\ ~inserted.out.raised /\ inserted.out.method = DIRECT
    /\ inserted.clipboard # inserted.text
    /\ clipboard = inserted.text

\* The messages of a command the daemon rejected or failed to carry out.
Refusals ==
    {"Cannot start: already", "No recording in progress",
     "Failed to start recording", "Failed to stop recording"}

\* The dict r tells of a command rejected or failed (a status dict has no message).
Refused(r) == IF "message" \in DOMAIN r THEN r.message \in Refusals ELSE FALSE

\* C39 (rejections travel as successes): the outcome of a start, stop, status
\* or shutdown handler is always a returned dict, so the transport answers
\* with status success and that dict as result; for a rejected or failed
\* command the result carries success = false.
C39_RefusalsAreTransportSuccesses ==
    response.kind \in {"start", "stop", "status", "shutdown"} =>
        /\ Reply(response).status = "success"
        /\ Reply(response).result = response
        /\ Refused(response) <=> ~Reply(response).result.success

\* A start whose audio stream failed to open is answered by the transport
\* with status success and a result that carries success = false.
C39_FailedOpenAnswered ==
    /\ response.kind = "start" /\ response.message = "Failed to start recording"
    /\ Reply(response).status = "success" /\ ~Reply(response).result.success

\* C40 (teardown runs once): at most one thread is ever past the test of
\* running in shutdown(), and the transport server is stopped by a teardown
\* only while it is still running.
C40_TeardownAtMostOnce ==
    /\ [](Cardinality({t \in Tasks : cmd[t] = "teardown" /\ pc[t] \notin {"idle", "td_check"}}) <= 1)
    /\ [][\A t \in Tasks : (pc[t] = "td_ipc" /\ Moves(t)) => ipc_running]_vars

====
